---- MODULE Spec2Model ----
(***************************************************************************)
(* Model of scripts/import_otter_ai.py and scripts/batch_upload.py.        *)
(*                                                                         *)
(* Text is modelled as sequences of one-character strings, so that the     *)
(* regular expressions, strip(), split() and int() of the source are       *)
(* computed character by character.  Python's None is the empty tuple      *)
(* None, and a present optional value v is the one-element tuple Some(v).  *)
(*                                                                         *)
(* A value that is used more than once is bound as the parameter of a      *)
(* local operator (LET At(k) == ... IN At(e)), which evaluates e once.     *)
(***************************************************************************)
EXTENDS Integers, Sequences, FiniteSets, TLC

None == << >>

Some(v) == << v >>

(***************************************************************************)
(* Character classes of the re module and of the str methods.              *)
(***************************************************************************)
Digits == <<"0", "1", "2", "3", "4", "5", "6", "7", "8", "9">>

UpperCase == <<"A", "B", "C", "D", "E", "F", "G", "H", "I", "J", "K", "L", "M",
               "N", "O", "P", "Q", "R", "S", "T", "U", "V", "W", "X", "Y", "Z">>

LowerCase == <<"a", "b", "c", "d", "e", "f", "g", "h", "i", "j", "k", "l", "m",
               "n", "o", "p", "q", "r", "s", "t", "u", "v", "w", "x", "y", "z">>

\* \d
IsDigit(c) == \E k \in 1..10 : Digits[k] = c

\* \s, and the characters that strip() removes
IsSpace(c) == c = " "

\* \w
IsWord(c) ==
    \/ IsDigit(c)
    \/ c = "_"
    \/ \E k \in 1..26 : UpperCase[k] = c \/ LowerCase[k] = c

DigitVal(c) == (CHOOSE k \in 1..10 : Digits[k] = c) - 1

\* int(s) for a string of decimal digits
RECURSIVE int(_)
int(s) ==
    IF Len(s) = 0 THEN 0
    ELSE int(SubSeq(s, 1, Len(s) - 1)) * 10 + DigitVal(s[Len(s)])

\* number of consecutive digits of s from position p on (greedy \d*)
RECURSIVE DigitRun(_, _)
DigitRun(s, p) ==
    IF p <= Len(s) /\ IsDigit(s[p]) THEN 1 + DigitRun(s, p + 1) ELSE 0

\* number of consecutive whitespace characters of s from position p on (greedy \s*)
RECURSIVE SpaceRun(_, _)
SpaceRun(s, p) ==
    IF p <= Len(s) /\ IsSpace(s[p]) THEN 1 + SpaceRun(s, p + 1) ELSE 0

\* number of consecutive word characters of s from position p on (greedy \w*)
RECURSIVE WordRun(_, _)
WordRun(s, p) ==
    IF p <= Len(s) /\ IsWord(s[p]) THEN 1 + WordRun(s, p + 1) ELSE 0

\* str.strip()
RECURSIVE lstrip(_)
lstrip(s) ==
    IF Len(s) > 0 /\ IsSpace(s[1]) THEN lstrip(Tail(s)) ELSE s

RECURSIVE rstrip(_)
rstrip(s) ==
    IF Len(s) > 0 /\ IsSpace(s[Len(s)]) THEN rstrip(SubSeq(s, 1, Len(s) - 1)) ELSE s

strip(s) == rstrip(lstrip(s))

\* str.startswith(prefix)
startswith(s, prefix) ==
    Len(s) >= Len(prefix) /\ SubSeq(s, 1, Len(prefix)) = prefix

\* position of the first occurrence of character c in s at or after p, 0 if none
RECURSIVE IndexOf(_, _, _)
IndexOf(s, c, p) ==
    IF p > Len(s) THEN 0
    ELSE IF s[p] = c THEN p
    ELSE IndexOf(s, c, p + 1)

\* str.split(c) for a one-character separator
RECURSIVE split(_, _)
split(s, c) ==
    LET At(k) == IF k = 0 THEN << s >>
                 ELSE << SubSeq(s, 1, k - 1) >> \o split(SubSeq(s, k + 1, Len(s)), c)
    IN  At(IndexOf(s, c, 1))

\* ' '.join(parts)
RECURSIVE join(_)
join(parts) ==
    IF Len(parts) = 0 THEN << >>
    ELSE IF Len(parts) = 1 THEN parts[1]
    ELSE parts[1] \o << " " >> \o join(Tail(parts))

\* [k.strip() for k in line.split(',')]
SplitStripped(line) ==
    LET Each(pieces) == [k \in 1..Len(pieces) |-> strip(pieces[k])]
    IN  Each(split(line, ","))

\* all of s[p..p+n-1] exist and are digits
DigitsAt(s, p, n) == p + n - 1 <= Len(s) /\ \A k \in p..(p + n - 1) : IsDigit(s[k])

\* s[p] exists and is the character c
CharAt(s, p, c) == p <= Len(s) /\ s[p] = c

(***************************************************************************)
(* The time token \d+:\d+(?::\d+)? and its conversion to seconds.          *)
(***************************************************************************)
\* \d+:\d+ at position p: the position after it, or 0 when it does not match.
\* The digit runs are greedy and are delimited by non-digits, so no shorter
\* run can lead to a match.
TwoFieldEnd(s, p) ==
    LET First(d1) ==
            LET Second(d2) == IF d1 > 0 /\ d2 > 0 THEN p + d1 + 1 + d2 ELSE 0
            IN  Second(IF CharAt(s, p + d1, ":") THEN DigitRun(s, p + d1 + 1) ELSE 0)
    IN  First(DigitRun(s, p))

\* (?::\d+)? at position q: the position after the optional third field when
\* it is present, q otherwise
ThirdFieldEnd(s, q) ==
    LET Third(d3) == IF d3 > 0 THEN q + 1 + d3 ELSE q
    IN  Third(IF CharAt(s, q, ":") THEN DigitRun(s, q + 1) ELSE 0)

\* \s*$ at position q
RestIsSpace(s, q) == q + SpaceRun(s, q) = Len(s) + 1

\* (\d+:\d+(?::\d+)?)\s*$ at position p: the position after the token, or 0.
\* The optional field is tried first; without it the rest must be blank.
TokenToEnd(s, p) ==
    LET Two(e2) ==
            LET Three(e3) == IF RestIsSpace(s, e3) THEN e3
                             ELSE IF RestIsSpace(s, e2) THEN e2
                             ELSE 0
            IN  IF e2 = 0 THEN 0 ELSE Three(ThirdFieldEnd(s, e2))
    IN  Two(TwoFieldEnd(s, p))

\* the 2-field / 3-field conversion of lines 71-75 and 121-125; None stands
\* for "no branch taken", which leaves the target as it was
ToSeconds(time_str) ==
    LET Convert(parts) ==
            IF Len(parts) = 2 THEN Some(int(parts[1]) * 60 + int(parts[2]))
            ELSE IF Len(parts) = 3
                 THEN Some(int(parts[1]) * 3600 + int(parts[2]) * 60 + int(parts[3]))
            ELSE None
    IN  Convert(split(time_str, ":"))

(***************************************************************************)
(* timestamp_pattern = ^(.+?)?\s*(\d+:\d+(?::\d+)?)\s*$                      *)
(***************************************************************************)
\* \s*(\d+:\d+(?::\d+)?)\s*$ at position p
TailAt(s, p) ==
    LET Token(q) ==
            LET Result(e) == [ok |-> e > 0, from |-> q, to |-> e - 1]
            IN  Result(TokenToEnd(s, q))
    IN  Token(p + SpaceRun(s, p))

\* the lazy group (.+?): the shortest non-empty prefix after which the rest
\* of the pattern matches; 0 when no prefix does
RECURSIVE LazySpeakerLen(_, _)
LazySpeakerLen(s, k) ==
    IF k > Len(s) THEN 0
    ELSE IF TailAt(s, k + 1).ok THEN k
    ELSE LazySpeakerLen(s, k + 1)

\* timestamp_pattern.match(para): the optional group is tried present first
\* (it is a greedy ?), and absent only when no prefix lets the rest match
timestamp_pattern(para) ==
    LET Group1(k) ==
            LET Group2(t) ==
                    IF ~t.ok
                    THEN [matched |-> FALSE, speaker_part |-> None, time_part |-> << >>]
                    ELSE [matched      |-> TRUE,
                          speaker_part |-> IF k > 0 THEN Some(SubSeq(para, 1, k)) ELSE None,
                          time_part    |-> SubSeq(para, t.from, t.to)]
            IN  Group2(TailAt(para, IF k > 0 THEN k + 1 ELSE 1))
    IN  Group1(LazySpeakerLen(para, 1))

(***************************************************************************)
(* Date extraction from line 1 (date_patterns and strptime).               *)
(***************************************************************************)
lower(c) ==
    IF \E k \in 1..26 : UpperCase[k] = c
    THEN LowerCase[CHOOSE k \in 1..26 : UpperCase[k] = c]
    ELSE c

LowerStr(s) == [k \in 1..Len(s) |-> lower(s[k])]

Weekdays == << <<"m","o","n">>, <<"t","u","e">>, <<"w","e","d">>, <<"t","h","u">>,
               <<"f","r","i">>, <<"s","a","t">>, <<"s","u","n">> >>

Months == << <<"j","a","n">>, <<"f","e","b">>, <<"m","a","r">>, <<"a","p","r">>,
             <<"m","a","y">>, <<"j","u","n">>, <<"j","u","l">>, <<"a","u","g">>,
             <<"s","e","p">>, <<"o","c","t">>, <<"n","o","v">>, <<"d","e","c">> >>

\* r'(\w+, \w+ \d+, \d{4})' at position p: the position after the match or 0.
\* Each greedy run ends at a character outside its class, which must be the
\* literal that follows, so a shorter run never matches.  a, b and c are the
\* positions after the first word, the second word and the day.
LongDateEnd(s, p) ==
    LET Word1(a) ==
            LET Word2(b) ==
                    LET Day(c) ==
                            IF /\ a > p /\ CharAt(s, a, ",") /\ CharAt(s, a + 1, " ")
                               /\ b > a + 2 /\ CharAt(s, b, " ")
                               /\ c > b + 1 /\ CharAt(s, c, ",") /\ CharAt(s, c + 1, " ")
                               /\ DigitsAt(s, c + 2, 4)
                            THEN c + 6 ELSE 0
                    IN  Day(b + 1 + DigitRun(s, b + 1))
            IN  Word2(a + 2 + WordRun(s, a + 2))
    IN  Word1(p + WordRun(s, p))

\* r'(\d{4}-\d{2}-\d{2})' at position p
IsoDateEnd(s, p) ==
    IF /\ DigitsAt(s, p, 4) /\ CharAt(s, p + 4, "-")
       /\ DigitsAt(s, p + 5, 2) /\ CharAt(s, p + 7, "-")
       /\ DigitsAt(s, p + 8, 2)
    THEN p + 10 ELSE 0

\* r'(\d{8})' at position p
CompactDateEnd(s, p) == IF DigitsAt(s, p, 8) THEN p + 8 ELSE 0

\* the patterns are listed the other way round
date_patterns_ReverseOrder == <<"compact", "iso", "long">>

\* lines 47-51, in the order tried
date_patterns == <<"long", "iso", "compact">>

PatternEnd(pattern, s, p) ==
    IF pattern = "long" THEN LongDateEnd(s, p)
    ELSE IF pattern = "iso" THEN IsoDateEnd(s, p)
    ELSE CompactDateEnd(s, p)

\* re.search(pattern, s) from position p on: group(1) of the leftmost match,
\* None when there is none
RECURSIVE SearchFrom(_, _, _)
SearchFrom(pattern, s, p) ==
    LET Found(e) == IF e > 0 THEN Some(SubSeq(s, p, e - 1))
                    ELSE SearchFrom(pattern, s, p + 1)
    IN  IF p > Len(s) THEN None ELSE Found(PatternEnd(pattern, s, p))

re_search(pattern, s) == SearchFrom(pattern, s, 1)

\* the alternatives of strptime's %m, 1[0-2]|0[1-9]|[1-9], at position p: the
\* positions after each alternative that matches, in the order tried
MonthAlts(s, p) ==
    (IF DigitsAt(s, p, 2) /\ s[p] = "1" /\ DigitVal(s[p + 1]) <= 2 THEN << p + 2 >> ELSE << >>)
    \o (IF DigitsAt(s, p, 2) /\ s[p] = "0" /\ s[p + 1] # "0" THEN << p + 2 >> ELSE << >>)
    \o (IF DigitsAt(s, p, 1) /\ s[p] # "0" THEN << p + 1 >> ELSE << >>)

\* the alternatives of strptime's %d, 3[0-1]|[1-2]\d|0[1-9]|[1-9]| [1-9]
DayAlts(s, p) ==
    (IF DigitsAt(s, p, 2) /\ s[p] = "3" /\ DigitVal(s[p + 1]) <= 1 THEN << p + 2 >> ELSE << >>)
    \o (IF DigitsAt(s, p, 2) /\ s[p] \in {"1", "2"} THEN << p + 2 >> ELSE << >>)
    \o (IF DigitsAt(s, p, 2) /\ s[p] = "0" /\ s[p + 1] # "0" THEN << p + 2 >> ELSE << >>)
    \o (IF DigitsAt(s, p, 1) /\ s[p] # "0" THEN << p + 1 >> ELSE << >>)
    \o (IF CharAt(s, p, " ") /\ DigitsAt(s, p + 1, 1) /\ s[p + 1] # "0"
        THEN << p + 2 >> ELSE << >>)

LeapYear(y) == (y % 4 = 0 /\ y % 100 # 0) \/ y % 400 = 0

DaysInMonth(y, m) ==
    IF m = 2 THEN (IF LeapYear(y) THEN 29 ELSE 28)
    ELSE IF m \in {4, 6, 9, 11} THEN 30
    ELSE 31

\* what strptime and date() raise on text that is not a date
ValueError == [ok |-> FALSE, date |-> None]

\* datetime.date(year, month, day), which rejects year 0 and days past the
\* end of the month
MakeDate(year, month, day) ==
    IF year >= 1 /\ month \in 1..12 /\ day >= 1 /\ day <= DaysInMonth(year, month)
    THEN [ok |-> TRUE, date |-> Some([year |-> year, month |-> month, day |-> day])]
    ELSE ValueError

\* index of the three letters at position p (any case) in a list of
\* abbreviations, 0 if they are not in it
AbbrIndex(names, s, p) ==
    LET Find(w) == IF \E k \in 1..Len(names) : names[k] = w
                   THEN CHOOSE k \in 1..Len(names) : names[k] = w
                   ELSE 0
    IN  IF p + 2 > Len(s) THEN 0 ELSE Find(LowerStr(SubSeq(s, p, p + 2)))

\* first element of the sequence ends that is in the set good, 0 if none:
\* the order in which the regex engine tries the alternatives
RECURSIVE FirstWith(_, _)
FirstWith(ends, good) ==
    IF Len(ends) = 0 THEN 0
    ELSE IF ends[1] \in good THEN ends[1]
    ELSE FirstWith(Tail(ends), good)

\* datetime.strptime(s, '%a, %b %d, %Y').date(): the format's regex must match
\* at the start and consume the whole string.  pm, pd and py are the
\* positions of the month, the day and the year, de the one after the day.
strptime_long(s) ==
    LET Month(pm) ==
            LET Day(pd) ==
                    LET DayEnd(de) ==
                            LET Year(py) ==
                                    IF /\ AbbrIndex(Weekdays, s, 1) > 0 /\ CharAt(s, 4, ",")
                                       /\ pm > 5
                                       /\ AbbrIndex(Months, s, pm) > 0
                                       /\ pd > pm + 3
                                       /\ de > 0
                                       /\ py > de + 1
                                       /\ DigitsAt(s, py, 4) /\ py + 4 = Len(s) + 1
                                    THEN MakeDate(int(SubSeq(s, py, py + 3)),
                                                  AbbrIndex(Months, s, pm),
                                                  int(strip(SubSeq(s, pd, de - 1))))
                                    ELSE ValueError
                            IN  Year(de + 1 + SpaceRun(s, de + 1))
                    IN  DayEnd(FirstWith(DayAlts(s, pd), {e \in 1..Len(s) : s[e] = ","}))
            IN  Day(pm + 3 + SpaceRun(s, pm + 3))
    IN  Month(5 + SpaceRun(s, 5))

\* datetime.strptime(s, '%Y-%m-%d').date(); me and de are the positions
\* after the month and after the day
strptime_iso(s) ==
    LET MonthEnd(me) ==
            LET DayEnd(de) ==
                    IF me > 0 /\ de = Len(s) + 1
                    THEN MakeDate(int(SubSeq(s, 1, 4)), int(SubSeq(s, 6, me - 1)),
                                  int(strip(SubSeq(s, me + 1, de - 1))))
                    ELSE ValueError
            IN  DayEnd(IF me > 0 THEN DayAlts(s, me + 1)[1] ELSE 0)
    IN  MonthEnd(IF DigitsAt(s, 1, 4) /\ CharAt(s, 5, "-")
                 THEN FirstWith(MonthAlts(s, 6),
                                {e \in 1..Len(s) : s[e] = "-" /\ Len(DayAlts(s, e + 1)) > 0})
                 ELSE 0)

\* datetime.strptime(s, '%Y%m%d').date()
strptime_compact(s) ==
    LET MonthEnd(me) ==
            LET DayEnd(de) ==
                    IF me > 0 /\ de = Len(s) + 1
                    THEN MakeDate(int(SubSeq(s, 1, 4)), int(SubSeq(s, 5, me - 1)),
                                  int(strip(SubSeq(s, me, de - 1))))
                    ELSE ValueError
            IN  DayEnd(IF me > 0 THEN DayAlts(s, me)[1] ELSE 0)
    IN  MonthEnd(IF DigitsAt(s, 1, 4)
                 THEN FirstWith(MonthAlts(s, 5),
                                {e \in 1..(Len(s) + 1) : Len(DayAlts(s, e)) > 0})
                 ELSE 0)

\* lines 56-62: the format is chosen by the characters of the matched text
ConvertDate(date_str) ==
    IF \E k \in 1..Len(date_str) : date_str[k] = "," THEN strptime_long(date_str)
    ELSE IF \E k \in 1..Len(date_str) : date_str[k] = "-" THEN strptime_iso(date_str)
    ELSE strptime_compact(date_str)

\* lines 55-65, try / except: pass around the conversion: the outcome of one
\* matched pattern is a date, or nothing with the loop going on; never a raise
TryConvert(date_str) ==
    LET Caught(r) == [raised |-> FALSE, date |-> IF r.ok THEN r.date ELSE None]
    IN  Caught(ConvertDate(date_str))

\* the loop is left when a conversion fails
RECURSIVE ExtractDateFrom_StopsOnFailure(_, _)
ExtractDateFrom_StopsOnFailure(date_line, k) ==
    LET Matched(match) == IF match = None
                          THEN ExtractDateFrom_StopsOnFailure(date_line, k + 1)
                          ELSE TryConvert(match[1])
    IN  IF k > Len(date_patterns) THEN [raised |-> FALSE, date |-> None]
        ELSE Matched(re_search(date_patterns[k], date_line))

\* lines 52-65: for pattern in date_patterns, from the k-th pattern on
RECURSIVE ExtractDateFrom(_, _)
ExtractDateFrom(date_line, k) ==
    LET Converted(r) == IF r.raised \/ r.date # None THEN r
                        ELSE ExtractDateFrom(date_line, k + 1)
        Matched(match) == IF match = None THEN ExtractDateFrom(date_line, k + 1)
                          ELSE Converted(TryConvert(match[1]))
    IN  IF k > Len(date_patterns) THEN [raised |-> FALSE, date |-> None]
        ELSE Matched(re_search(date_patterns[k], date_line))

ExtractDate(date_line) == ExtractDateFrom(date_line, 1)

(***************************************************************************)
(* Duration extraction from line 1 (lines 67-75).                          *)
(***************************************************************************)
\* re.search(r'(\d+:\d+(?::\d+)?)\s*$', s): the leftmost position from which
\* the token reaches the end of the line
\* the search is not anchored at the end of the line: the leftmost token wins
RECURSIVE DurationSearch_Unanchored(_, _)
DurationSearch_Unanchored(s, p) ==
    LET Found(e2) == IF e2 > 0 THEN Some(SubSeq(s, p, ThirdFieldEnd(s, e2) - 1))
                     ELSE DurationSearch_Unanchored(s, p + 1)
    IN  IF p > Len(s) THEN None ELSE Found(TwoFieldEnd(s, p))

RECURSIVE DurationSearch(_, _)
DurationSearch(s, p) ==
    LET Found(e) == IF e > 0 THEN Some(SubSeq(s, p, e - 1))
                    ELSE DurationSearch(s, p + 1)
    IN  IF p > Len(s) THEN None ELSE Found(TokenToEnd(s, p))

ExtractDuration(date_line) ==
    LET Matched(duration_match) ==
            IF duration_match = None THEN None ELSE ToSeconds(duration_match[1])
    IN  Matched(DurationSearch(date_line, 1))

(***************************************************************************)
(* Keyword and speaker blocks (lines 77-88).                               *)
(***************************************************************************)
SUMMARY_KEYWORDS == <<"S","U","M","M","A","R","Y"," ","K","E","Y","W","O","R","D","S">>

SPEAKERS == <<"S","P","E","A","K","E","R","S">>

SUMMARY == <<"S","U","M","M","A","R","Y">>

\* the bound of the header scan, "i < 10"
HeaderScanEnd == 10

\* the guard "i + 1 < len(paragraphs)" of both label branches (i is 0-based)
HasValueLine(paragraphs, i) == i + 1 < Len(paragraphs)

\* the while loop from index i on (0-based, as in the source); h holds the
\* keywords and speakers found so far
RECURSIVE ScanHeader(_, _, _)
ScanHeader(paragraphs, i, h) ==
    IF ~(i < Len(paragraphs) /\ i < HeaderScanEnd) THEN h
    ELSE IF paragraphs[i + 1] = SUMMARY_KEYWORDS /\ HasValueLine(paragraphs, i)
         THEN ScanHeader(paragraphs, i + 2,
                         [h EXCEPT !.keywords = SplitStripped(paragraphs[i + 2])])
    ELSE IF paragraphs[i + 1] = SPEAKERS /\ HasValueLine(paragraphs, i)
         THEN ScanHeader(paragraphs, i + 2,
                         [h EXCEPT !.speakers = SplitStripped(paragraphs[i + 2])])
    ELSE ScanHeader(paragraphs, i + 1, h)

(***************************************************************************)
(* Transcript segments (lines 90-149).                                     *)
(***************************************************************************)
\* number of header lines skipped by paragraphs[6:]
BodyStart == 6

\* line 111, segment_index += 1
\* the counter is left as it was
NextIndex_Stuck(segment_index) == segment_index

NextIndex(segment_index) == segment_index + 1

\* lines 104 and 134, "current_start is not None and current_text"
Pending(st) == st.current_start # None /\ Len(st.current_text) > 0

\* lines 105-110 and 135-140, segments.append({...})
AppendSegment(st) ==
    Append(st.segments,
           [segment_index |-> st.segment_index,
            start_time    |-> st.current_start[1],
            speaker       |-> st.current_speaker,
            text          |-> join(st.current_text)])

\* lines 117-118, "if speaker_part: current_speaker = speaker_part.strip()"
UpdateSpeaker(current_speaker, speaker_part) ==
    IF speaker_part # None /\ Len(speaker_part[1]) > 0
    THEN Some(strip(speaker_part[1]))
    ELSE current_speaker

\* lines 120-125: neither branch is taken for a token that is not of two or
\* three fields, and current_start then keeps its value
UpdateStart(current_start, time_part) ==
    LET Assign(t) == IF t = None THEN current_start ELSE t
    IN  Assign(ToSeconds(time_part))

\* every line that is not empty is kept
IsTranscriptText_KeepsAll(para) == Len(para) > 0

\* line 130
IsTranscriptText(para) ==
    Len(para) > 0 /\ ~startswith(para, SUMMARY) /\ ~startswith(para, SPEAKERS)

\* lines 103-111: the segment in progress is saved when a timestamp line comes
SavePrevious(st) ==
    IF Pending(st)
    THEN [st EXCEPT !.segments = AppendSegment(st),
                    !.segment_index = NextIndex(st.segment_index)]
    ELSE st

\* one iteration of "for para in paragraphs[6:]"
SegmentStep(st, para) ==
    LET Matched(match) ==
            IF match.matched
            THEN [SavePrevious(st) EXCEPT
                    !.current_speaker = UpdateSpeaker(st.current_speaker, match.speaker_part),
                    !.current_start   = UpdateStart(st.current_start, match.time_part),
                    !.current_text    = << >>]
            ELSE IF IsTranscriptText(para)
                 THEN [st EXCEPT !.current_text = Append(st.current_text, para)]
                 ELSE st
    IN  Matched(timestamp_pattern(para))

\* the loop over paragraphs[6:], from the k-th paragraph (1-based) on
RECURSIVE SegmentLoop(_, _, _)
SegmentLoop(paragraphs, k, st) ==
    IF k > Len(paragraphs) THEN st
    ELSE SegmentLoop(paragraphs, k + 1, SegmentStep(st, paragraphs[k]))

\* lines 94-98
NoSegmentYet ==
    [segments |-> << >>, current_speaker |-> None, current_start |-> None,
     current_text |-> << >>, segment_index |-> 0]

\* lines 94-140: the loop and the save of the last segment
ParseSegments(paragraphs) ==
    LET Last(st) == IF Pending(st) THEN AppendSegment(st) ELSE st.segments
    IN  Last(SegmentLoop(paragraphs, BodyStart + 1, NoSegmentYet))

\* the fallback length of the last segment, line 149
DefaultSegmentSeconds == 30

\* line 146, "elif result['duration_seconds']:", the truth value of an
\* optional integer: None and 0 are both false
Truthy(duration_seconds) == duration_seconds # None /\ duration_seconds[1] # 0

\* lines 143-149: the end time of the i-th segment (1-based)
\* the segment's own start is read in place of the next segment's
EndTime_OwnStart(segments, i, duration_seconds) ==
    IF i + 1 <= Len(segments) THEN segments[i].start_time
    ELSE IF Truthy(duration_seconds) THEN duration_seconds[1]
    ELSE segments[i].start_time + DefaultSegmentSeconds

EndTime(segments, i, duration_seconds) ==
    IF i + 1 <= Len(segments) THEN segments[i + 1].start_time
    ELSE IF Truthy(duration_seconds) THEN duration_seconds[1]
    ELSE segments[i].start_time + DefaultSegmentSeconds

\* the loop of lines 143-149
WithEndTimes(segments, duration_seconds) ==
    [i \in 1..Len(segments) |->
        [segment_index |-> segments[i].segment_index,
         start_time    |-> segments[i].start_time,
         speaker       |-> segments[i].speaker,
         text          |-> segments[i].text,
         end_time      |-> EndTime(segments, i, duration_seconds)]]

(***************************************************************************)
(* parse_otter_docx                                                        *)
(***************************************************************************)
\* line 27: [p.text.strip() for p in doc.paragraphs if p.text.strip()]
RECURSIVE NonEmptyStripped(_)
NonEmptyStripped(raw) ==
    IF Len(raw) = 0 THEN << >>
    ELSE (IF Len(strip(raw[1])) > 0 THEN << strip(raw[1]) >> ELSE << >>)
         \o NonEmptyStripped(Tail(raw))

\* the least number of lines of a document that is parsed, line 29
MinParagraphs == 3

\* line 29
\* a document of exactly three lines is rejected as well
TooShort_OffByOne(paragraphs) == Len(paragraphs) <= MinParagraphs

TooShort(paragraphs) == Len(paragraphs) < MinParagraphs

ReturnNone == [outcome |-> "None", result |-> None]

\* an exception leaves the function
Raise == [outcome |-> "Raise", result |-> None]

\* lines 32-39 and 151-152: the result, from what the parts of the function
\* extracted; an exception of the date extraction would leave the function
BuildResult(paragraphs, d, duration, h) ==
    IF d.raised THEN Raise
    ELSE [outcome |-> "Transcript",
          result  |-> Some([title            |-> paragraphs[1],
                            recording_date   |-> d.date,
                            duration_seconds |-> duration,
                            keywords         |-> h.keywords,
                            speakers         |-> h.speakers,
                            segments         |-> WithEndTimes(ParseSegments(paragraphs),
                                                              duration)])]

\* lines 29-152, on the non-empty stripped lines; line 1 is read only under
\* the guard of line 43
ParseParagraphs(paragraphs) ==
    IF TooShort(paragraphs) THEN ReturnNone
    ELSE BuildResult(paragraphs,
                     IF Len(paragraphs) > 1 THEN ExtractDate(paragraphs[2])
                     ELSE [raised |-> FALSE, date |-> None],
                     IF Len(paragraphs) > 1 THEN ExtractDuration(paragraphs[2]) ELSE None,
                     ScanHeader(paragraphs, 2, [keywords |-> << >>, speakers |-> << >>]))

\* the call parse_otter_docx(docx_path) on a document with the given text of
\* its paragraphs: it returns None, returns a transcript, or raises
parse_otter_docx(raw) == ParseParagraphs(NonEmptyStripped(raw))

(***************************************************************************)
(* Documents given to the parser.  A document is the sequence of the texts *)
(* of its paragraphs, blank ones included.                                 *)
(***************************************************************************)
\* longest transcript body (paragraphs after the six header lines)
MaxBody == 4

\* longest transcript body over the lines of LongBodyPool
MaxLongBody == 5

\* longest transcript body that is combined with every header
MaxSmallBody == 3

\* longest document made of arbitrary short lines
MaxShort == 4

Title == <<"T">>

\* line 1 candidates ("*" stands for the bullet of an Otter export, which
\* like it is neither a word character, a digit nor whitespace)
L1_plain == <<"x">>

L1_zero == <<"0",":","0","0">>

L1_short == <<"1",":","0","5">>

L1_otter == <<"F","r","i",","," ","D","e","c"," ","0","5",","," ","2","0","2","5"," ",
              "1","0",":","4","7","A","M"," ","*"," ","2","1",":","0","1">>

L1_iso == <<"2","0","2","5","-","1","2","-","0","5"," ","1",":","2","1",":","0","1">>

L1_baddate == <<"2","0","2","5","-","1","3","-","4","5">>

L1_twodates == <<"F","o","o",","," ","B","a","r"," ","0","5",","," ","2","0","2","5"," ",
                 "2","0","2","3","1","1","2","7">>

\* two dates, the one of the later pattern first in the line
L1_both == <<"2","0","2","3","1","1","2","7"," ","2","0","2","5","-","1","2","-","0","5">>

\* an ISO date before a date in the long form
L1_isolong == <<"2","0","2","4","-","0","1","-","0","2"," ",
                "F","r","i",","," ","D","e","c"," ","0","5",","," ","2","0","2","5">>

\* a token that lacks its seconds
L1_nosec == <<"2","1",":">>

Line1Pool == {L1_plain, L1_zero, L1_short, L1_otter, L1_iso, L1_baddate, L1_twodates}

\* the line 1 candidates combined with every body
DurationPool == {L1_plain, L1_zero, L1_short}

\* lines 2-5 candidates
KeywordValues == <<"a","i",","," ","n","a","s","a">>

SpeakerValues == <<"A","l",","," ","B","o">>

Filler == <<"k">>

H_labelled == <<SUMMARY_KEYWORDS, KeywordValues, SPEAKERS, SpeakerValues>>

H_bare == <<Filler, Filler, Filler, Filler>>

H_speakers == <<Filler, Filler, SPEAKERS, SpeakerValues>>

HeaderPool == {H_labelled, H_bare, H_speakers}

\* an export without keywords: the blank value line is dropped and the next
\* label follows at once
H_nokeywords == <<SUMMARY_KEYWORDS, SPEAKERS, SpeakerValues, Filler>>

\* body candidates
B_text == <<"a">>

B_m_ss == <<"1",":","0","5">>

B_mm_ss == <<"1","2",":","3","4">>

B_h_mm_ss == <<"1",":","2","1",":","0","1">>

B_al == <<"A","l"," "," ","0",":","3","0">>

B_bo == <<"B","o"," ","0","2",":","0","0">>

\* timestamp lines and text lines
BodyPool == {B_text, B_m_ss, B_mm_ss, B_h_mm_ss, B_al, B_bo}

\* the lines of the longer bodies
LongBodyPool == {B_text, B_m_ss, B_al}

B_word == <<"b">>

\* two kinds of text, a timestamp line and a stray label line
WordPool == {B_text, B_word, B_m_ss, SPEAKERS}

\* the bodies combined with the further line 1 and header candidates
TinyBodies == {<< >>, <<B_m_ss, B_text>>}

Blank == <<" ">>

ShortPool == {<< >>, Blank, Title, B_m_ss}

SeqsUpTo(S, n) == UNION {[1..k -> S] : k \in 0..n}

\* short documents; documents with the labelled header and every body;
\* documents with every header and a short body, which a stray label line
\* may be part of; documents with a longer body of few kinds of lines;
\* documents with further dates and headers; documents with two kinds of text
Documents ==
    SeqsUpTo(ShortPool, MaxShort)
    \cup {<<Title, L1_plain>> \o H_labelled \o body :
              body \in SeqsUpTo(LongBodyPool, MaxLongBody)}
    \cup {<<Title, l1>> \o H_labelled \o body :
              l1 \in DurationPool, body \in SeqsUpTo(BodyPool, MaxBody)}
    \cup {<<Title, l1>> \o h \o body :
              l1 \in Line1Pool, h \in HeaderPool,
              body \in SeqsUpTo(BodyPool \cup {SPEAKERS}, MaxSmallBody)}
    \cup {<<Title, l1>> \o h \o body :
              l1 \in Line1Pool \cup {L1_both, L1_isolong, L1_nosec},
              h \in HeaderPool \cup {H_nokeywords}, body \in TinyBodies}
    \cup {<<Title, L1_plain>> \o H_bare \o body :
              body \in SeqsUpTo(WordPool, MaxLongBody)}

(***************************************************************************)
(* The directories handed to the two scripts.                              *)
(***************************************************************************)
\* most files in a directory
MaxFiles == 2

\* most runs of a script over its directory in one behaviour
MaxRuns == 2

\* a document of two segments, one of no segment, and one that is too short
Doc_two == <<Title, L1_short>> \o H_labelled \o <<B_al, B_text, B_m_ss, B_text>>

Doc_none == <<Title, L1_plain, Filler>>

Doc_short == <<Title, Blank, L1_short>>

\* what DocxDocument(path) finds: a document, or a file it cannot open
DocxKinds ==
    {[readable |-> TRUE, paragraphs |-> d] : d \in {Doc_two, Doc_none, Doc_short}}
    \cup {[readable |-> FALSE, paragraphs |-> << >>]}

\* the stem of the k-th docx file; the second one holds a character that the
\* storage key may not
StemOf(k) == IF k = 2 THEN <<"r", " ", "2">> ELSE <<"r", Digits[k + 1]>>

\* a docx file of the export directory with or without its mp3
PairKinds ==
    {[has_mp3 |-> TRUE, docx |-> d] : d \in DocxKinds}
    \cup {[has_mp3 |-> FALSE, docx |-> [readable |-> TRUE, paragraphs |-> Doc_two]]}

\* export_path.glob('*.docx'): one directory, so the stems differ
ExportDirs ==
    UNION {{[k \in 1..n |-> [stem |-> StemOf(k), has_mp3 |-> f[k].has_mp3, docx |-> f[k].docx]] :
               f \in [1..n -> PairKinds]} : n \in 0..MaxFiles}

\* source_path.rglob('*.mp4') and the like: the files of a tree, where two
\* directories may hold files of the same name
V_mp4 == <<"v", ".", "m", "p", "4">>

W_mov == <<"w", " ", "1", ".", "M", "O", "V">>

VideoFiles ==
    <<[dir |-> 1, name |-> V_mp4], [dir |-> 2, name |-> V_mp4],
      [dir |-> 1, name |-> W_mov], [dir |-> 2, name |-> W_mov]>>

RECURSIVE Pick(_, _)
Pick(files, chosen) ==
    IF Len(files) = 0 THEN << >>
    ELSE (IF files[1] \in chosen THEN << files[1] >> ELSE << >>) \o Pick(Tail(files), chosen)

VideoDirs ==
    {Pick(VideoFiles, c) : c \in {c \in SUBSET {VideoFiles[k] : k \in 1..Len(VideoFiles)} :
                                      Cardinality(c) <= MaxFiles}}

(***************************************************************************)
(* State.                                                                  *)
(***************************************************************************)
VARIABLES
    docx,              \* the paragraphs of the document handed to parse_otter_docx
    ppc,               \* position of a direct caller of parse_otter_docx
    parsed,            \* what parse_otter_docx returned to its caller
    script,            \* the script that is run: "import_otter_ai" or "batch_upload"
    export_dir,        \* the docx files of the export directory, in glob order
    video_dir,         \* the video files of the source tree, in rglob order
    bucket,            \* the keys of the objects stored in S3
    audio_recordings,  \* committed rows of AudioRecording
    audio_segments,    \* committed rows of AudioSegment
    videos,            \* committed rows of Video
    runs,              \* number of runs started
    pc,                \* position of the running script
    idx,               \* 1-based position of the loop in docx_files / video_files
    upload_audio,      \* argument of import_otter_export
    dry_run,           \* argument of batch_upload
    imported,          \* tallies of import_otter_export
    skipped,           \*   (skipped is also the tally of that name of batch_upload)
    errors,
    uploaded,          \* tallies of batch_upload
    failed,
    s3_key,            \* the storage key of the current item
    session,           \* rows added to the session and not yet committed
    faults,            \* history: per-item steps that failed in the current run
    prior              \* history: committed catalog rows when the current run began

pvars == <<docx, ppc>>

world == <<script, export_dir, video_dir>>

db == <<audio_recordings, audio_segments, videos>>

tallies == <<imported, skipped, errors, uploaded, failed>>

vars == <<docx, ppc, parsed, script, export_dir, video_dir, bucket, audio_recordings,
          audio_segments, videos, runs, pc, idx, upload_audio, dry_run,
          imported, skipped, errors, uploaded, failed, s3_key, session, faults, prior>>

\* before the call the caller holds no value
Unset == [outcome |-> "Unset", result |-> None]

EmptySession == [recordings |-> << >>, segments |-> << >>]

\* no script has been started
NoScript ==
    /\ bucket = {}
    /\ audio_recordings = << >>
    /\ audio_segments = << >>
    /\ videos = << >>
    /\ runs = 0
    /\ pc = "idle"
    /\ idx = 0
    /\ upload_audio = TRUE
    /\ dry_run = FALSE
    /\ imported = 0
    /\ skipped = 0
    /\ errors = 0
    /\ uploaded = 0
    /\ failed = 0
    /\ s3_key = None
    /\ session = EmptySession
    /\ faults = 0
    /\ prior = 0

(***************************************************************************)
(* parse_otter_docx called on its own.                                     *)
(***************************************************************************)
InitParse ==
    /\ docx \in Documents
    /\ ppc = "call"
    /\ parsed = Unset
    /\ script = "none"
    /\ export_dir = << >>
    /\ video_dir = << >>
    /\ NoScript

\* parsed = parse_otter_docx(str(docx_path))
CallParse ==
    /\ ppc = "call"
    /\ parsed' = parse_otter_docx(docx)
    /\ ppc' = "returned"
    /\ UNCHANGED <<docx, world, bucket, db, runs, pc, idx, upload_audio, dry_run,
                   tallies, s3_key, session, faults, prior>>

NextParse == CallParse

SpecParse == InitParse /\ [][NextParse]_vars

(***************************************************************************)
(* import_otter_export                                                     *)
(***************************************************************************)
Mp3Suffix == <<".", "m", "p", "3">>

\* mp3_path.name for docx_path.with_suffix('.mp3')
Mp3Name(stem) == stem \o Mp3Suffix

\* re.sub(r'[^\w\-_.]', '_', name)
Sanitize(name) ==
    [k \in 1..Len(name) |-> IF IsWord(name[k]) \/ name[k] \in {"-", "_", "."}
                            THEN name[k] ELSE "_"]

\* the values uuid.uuid4().hex[:8] is drawn from: two keys of one file may
\* be the same or differ
Tokens == {"0a", "0b"}

\* f"audio/otter_ai/{safe_filename}_{uuid.uuid4().hex[:8]}.mp3"
AudioKey(stem, token) ==
    [category |-> "audio/otter_ai", name |-> Sanitize(stem), token |-> token, ext |-> "mp3"]

\* session.query(AudioRecording).filter(original_filename == name).first(),
\* when the query itself succeeds
\* the query compares the stored, sanitised filename
Existing_ByStoredName(rows, name) == \E k \in 1..Len(rows) : rows[k].filename = name

Existing(rows, name) == \E k \in 1..Len(rows) : rows[k].original_filename = name

\* lines 208 and 217, skipped += 1
\* the tally is left as it was
SkipTally_Stuck(n) == n

SkipTally(n) == n + 1

\* the tally is left as it was
ErrorTally_Stuck(n) == n

\* lines 225, 229 and 240, errors += 1
ErrorTally(n) == n + 1

Stopped == {"idle", "done", "aborted", "killed"}

\* the loop goes on to the next docx file, or leaves the loop
ImpAdvance ==
    /\ idx' = idx + 1
    /\ pc' = IF idx + 1 > Len(export_dir) THEN "summary" ELSE "mp3"

\* lines 179-197: the call, up to the loop
ImpBegin ==
    /\ script = "import_otter_ai"
    /\ pc \in Stopped
    /\ runs < MaxRuns
    /\ \E ua \in BOOLEAN : upload_audio' = ua
    /\ runs' = runs + 1
    /\ session' = EmptySession
    /\ imported' = 0
    /\ skipped' = 0
    /\ errors' = 0
    /\ faults' = 0
    /\ prior' = Len(audio_recordings)
    /\ parsed' = Unset
    /\ s3_key' = None
    /\ idx' = 1
    /\ pc' = IF Len(export_dir) = 0 THEN "summary" ELSE "mp3"
    /\ UNCHANGED <<pvars, world, bucket, db, dry_run, uploaded, failed>>

\* lines 200-209: a docx file without its mp3 is skipped
ImpCheckMp3 ==
    /\ pc = "mp3"
    /\ IF export_dir[idx].has_mp3
       THEN /\ pc' = "lookup"
            /\ UNCHANGED <<idx, skipped>>
       ELSE /\ skipped' = SkipTally(skipped)
            /\ ImpAdvance
    /\ UNCHANGED <<pvars, parsed, world, bucket, db, runs, upload_audio, dry_run,
                   imported, errors, uploaded, failed, s3_key, session, faults, prior>>

\* lines 211-218: the query for a row of the same original filename.  The
\* query is outside any try: when it fails the exception ends the run.
ImpLookup ==
    /\ pc = "lookup"
    /\ \E ok \in BOOLEAN :
         IF ~ok
         THEN /\ pc' = "aborted"
              /\ faults' = faults + 1
              /\ UNCHANGED <<idx, skipped>>
         ELSE IF Existing(audio_recordings, Mp3Name(export_dir[idx].stem))
         THEN /\ skipped' = SkipTally(skipped)
              /\ ImpAdvance
              /\ UNCHANGED faults
         ELSE /\ pc' = "parse"
              /\ UNCHANGED <<idx, skipped, faults>>
    /\ UNCHANGED <<pvars, parsed, world, bucket, db, runs, upload_audio, dry_run,
                   imported, errors, uploaded, failed, s3_key, session, prior>>

\* DocxDocument(path) raises on a file that it cannot open
OpenAndParse(file) ==
    IF file.readable THEN parse_otter_docx(file.paragraphs) ELSE Raise

\* lines 220-234: parse inside try / except Exception, then the storage key
ImpParse ==
    /\ pc = "parse"
    /\ parsed' = OpenAndParse(export_dir[idx].docx)
    /\ IF parsed'.outcome = "Transcript"
       THEN /\ \E t \in Tokens : s3_key' = Some(AudioKey(export_dir[idx].stem, t))
            /\ pc' = IF upload_audio THEN "upload" ELSE "create"
            /\ UNCHANGED <<idx, errors, faults>>
       ELSE /\ errors' = ErrorTally(errors)
            /\ faults' = faults + 1
            /\ ImpAdvance
            /\ UNCHANGED s3_key
    /\ UNCHANGED <<pvars, world, bucket, db, runs, upload_audio, dry_run,
                   imported, skipped, uploaded, failed, session, prior>>

\* the value upload_to_s3 returns is not looked at
ImpUpload_IgnoresFailure ==
    /\ pc = "upload"
    /\ \E ok \in BOOLEAN :
         /\ bucket' = IF ok THEN bucket \cup {s3_key[1]} ELSE bucket
         /\ pc' = "create"
         /\ UNCHANGED <<idx, errors, faults>>
    /\ UNCHANGED <<pvars, parsed, world, db, runs, upload_audio, dry_run,
                   imported, skipped, uploaded, failed, s3_key, session, prior>>

\* lines 155-163 and 236-241: upload_to_s3 turns any exception into False
ImpUpload ==
    /\ pc = "upload"
    /\ \E ok \in BOOLEAN :
         IF ok
         THEN /\ bucket' = bucket \cup {s3_key[1]}
              /\ pc' = "create"
              /\ UNCHANGED <<idx, errors, faults>>
         ELSE /\ errors' = ErrorTally(errors)
              /\ faults' = faults + 1
              /\ ImpAdvance
              /\ UNCHANGED bucket
    /\ UNCHANGED <<pvars, parsed, world, db, runs, upload_audio, dry_run,
                   imported, skipped, uploaded, failed, s3_key, session, prior>>

\* the primary key the database gives a new row: one no committed row has
NewId(rows) == Len(rows) + 1

\* the key of the row is built from the stem as it is, not from the
\* sanitised stem the object was stored under
RecordingRow_RawStemKey(id, stem, key, transcript) ==
    [id                |-> id,
     filename          |-> Sanitize(stem) \o Mp3Suffix,
     original_filename |-> Mp3Name(stem),
     s3_key            |-> [key EXCEPT !.name = stem],
     duration_seconds  |-> transcript.duration_seconds,
     title             |-> transcript.title,
     segment_count     |-> Len(transcript.segments)]

\* the AudioRecording of lines 244-259
RecordingRow(id, stem, key, transcript) ==
    [id                |-> id,
     filename          |-> Sanitize(stem) \o Mp3Suffix,
     original_filename |-> Mp3Name(stem),
     s3_key            |-> key,
     duration_seconds  |-> transcript.duration_seconds,
     title             |-> transcript.title,
     segment_count     |-> Len(transcript.segments)]

\* the AudioSegment rows of lines 264-273
SegmentRows(id, transcript) ==
    [k \in 1..Len(transcript.segments) |->
        [audio_id      |-> id,
         segment_index |-> transcript.segments[k].segment_index,
         start_time    |-> transcript.segments[k].start_time,
         end_time      |-> transcript.segments[k].end_time]]

\* the parent is committed on its own, before the segments are added
ImpCreate_CommitsParent ==
    /\ pc = "create"
    /\ \E ok \in BOOLEAN :
         IF ok
         THEN /\ audio_recordings' =
                     Append(audio_recordings,
                            RecordingRow(NewId(audio_recordings), export_dir[idx].stem,
                                         s3_key[1], parsed.result[1]))
              /\ session' = [session EXCEPT !.recordings =
                                Append(@, RecordingRow(NewId(audio_recordings),
                                                       export_dir[idx].stem,
                                                       s3_key[1], parsed.result[1]))]
              /\ pc' = "commit"
              /\ UNCHANGED faults
         ELSE /\ pc' = "aborted"
              /\ faults' = faults + 1
              /\ session' = EmptySession
              /\ UNCHANGED audio_recordings
    /\ UNCHANGED <<pvars, parsed, world, bucket, audio_segments, videos, runs, idx,
                   upload_audio, dry_run, tallies, s3_key, prior>>

\* lines 243-261: get_file_size, session.add(recording), session.flush().
\* None of them is inside a try: a failure ends the run.
ImpCreate ==
    /\ pc = "create"
    /\ \E ok \in BOOLEAN :
         IF ok
         THEN /\ session' = [session EXCEPT !.recordings =
                                Append(@, RecordingRow(NewId(audio_recordings),
                                                       export_dir[idx].stem,
                                                       s3_key[1], parsed.result[1]))]
              /\ pc' = "commit"
              /\ UNCHANGED faults
         ELSE /\ pc' = "aborted"
              /\ faults' = faults + 1
              /\ session' = EmptySession
    /\ UNCHANGED <<pvars, parsed, world, bucket, db, runs, idx, upload_audio, dry_run,
                   tallies, s3_key, prior>>

\* line 277, imported += 1
ImportedTally(n) == n + 1

\* lines 263-277: the segments are added and everything is committed at once
ImpCommit ==
    /\ pc = "commit"
    /\ \E ok \in BOOLEAN :
         IF ok
         THEN /\ audio_recordings' = audio_recordings \o session.recordings
              /\ audio_segments' = audio_segments \o session.segments
                                     \o SegmentRows(session.recordings[1].id, parsed.result[1])
              /\ session' = EmptySession
              /\ imported' = ImportedTally(imported)
              /\ ImpAdvance
              /\ UNCHANGED faults
         ELSE /\ pc' = "aborted"
              /\ faults' = faults + 1
              /\ session' = EmptySession
              /\ UNCHANGED <<audio_recordings, audio_segments, imported, idx>>
    /\ UNCHANGED <<pvars, parsed, world, bucket, videos, runs, upload_audio, dry_run,
                   skipped, errors, uploaded, failed, s3_key, prior>>

\* lines 279-283: session.close() and the summary
ImpSummary ==
    /\ script = "import_otter_ai"
    /\ pc = "summary"
    /\ pc' = "done"
    /\ session' = EmptySession
    /\ UNCHANGED <<pvars, parsed, world, bucket, db, runs, idx, upload_audio, dry_run,
                   tallies, s3_key, faults, prior>>

\* the process is terminated by the operating system; what the session had
\* not committed is rolled back
Kill ==
    /\ pc \notin Stopped
    /\ pc' = "killed"
    /\ session' = EmptySession
    /\ UNCHANGED <<pvars, parsed, world, bucket, db, runs, idx, upload_audio, dry_run,
                   tallies, s3_key, faults, prior>>

(***************************************************************************)
(* batch_upload                                                            *)
(***************************************************************************)
\* position of the last occurrence of character c in s, 0 if none
RECURSIVE LastIndexOf(_, _, _)
LastIndexOf(s, c, p) ==
    IF p = 0 THEN 0
    ELSE IF s[p] = c THEN p
    ELSE LastIndexOf(s, c, p - 1)

\* safe_name.rsplit('.', 1)[0]
BeforeLastDot(name) ==
    LET Cut(k) == IF k = 0 THEN name ELSE SubSeq(name, 1, k - 1)
    IN  Cut(LastIndexOf(name, ".", Len(name)))

\* video_path.suffix.lower().lstrip('.')
Format(name) ==
    LET Cut(k) == IF k <= 1 THEN << >> ELSE LowerStr(SubSeq(name, k + 1, Len(name)))
    IN  Cut(LastIndexOf(name, ".", Len(name)))

\* lines 117-119; the md5 of the path is stood for by the path itself
VideoKey(file) ==
    [category |-> "videos", name |-> BeforeLastDot(Sanitize(file.name)),
     token |-> <<file.dir, file.name>>, ext |-> Format(file.name)]

\* the Video of lines 146-159
VideoRow(id, file) ==
    [id                |-> id,
     filename          |-> file.name,
     original_filename |-> file.name,
     s3_key            |-> VideoKey(file),
     format            |-> Format(file.name),
     status            |-> "uploaded"]

\* lines 167, failed += 1
FailedTally(n) == n + 1

\* line 163, uploaded += 1
UploadedTally(n) == n + 1

\* the loop goes on to the next video, or leaves the loop
BatAdvance ==
    /\ idx' = idx + 1
    /\ pc' = IF idx + 1 > Len(video_dir) THEN "v_summary" ELSE "v_lookup"

\* the except branch of lines 165-167: the failure is counted and the loop
\* goes on
BatFail ==
    /\ failed' = FailedTally(failed)
    /\ faults' = faults + 1
    /\ BatAdvance

\* lines 84-112: the call, up to the loop; a dry run only prints
BatBegin ==
    /\ script = "batch_upload"
    /\ pc \in Stopped
    /\ runs < MaxRuns
    /\ runs' = runs + 1
    /\ uploaded' = 0
    /\ skipped' = 0
    /\ failed' = 0
    /\ faults' = 0
    /\ prior' = Len(videos)
    /\ s3_key' = None
    /\ idx' = 1
    /\ \E dr \in BOOLEAN :
         /\ dry_run' = dr
         /\ pc' = IF dr THEN "done"
                  ELSE IF Len(video_dir) = 0 THEN "v_summary" ELSE "v_lookup"
    /\ UNCHANGED <<pvars, parsed, world, bucket, db, upload_audio, imported, errors,
                   session>>

\* lines 116-128: the key, and the query for a row of the same original
\* filename; the whole body of the loop is inside try / except Exception
BatLookup ==
    /\ pc = "v_lookup"
    /\ s3_key' = Some(VideoKey(video_dir[idx]))
    /\ \E ok \in BOOLEAN :
         IF ~ok
         THEN /\ BatFail
              /\ UNCHANGED skipped
         ELSE IF Existing(videos, video_dir[idx].name)
         THEN /\ skipped' = SkipTally(skipped)
              /\ BatAdvance
              /\ UNCHANGED <<failed, faults>>
         ELSE /\ pc' = "v_stat"
              /\ UNCHANGED <<idx, skipped, failed, faults>>
    /\ UNCHANGED <<pvars, parsed, world, bucket, db, runs, upload_audio, dry_run,
                   imported, errors, uploaded, session, prior>>

\* lines 130-133: stat() may fail; get_video_duration and
\* extract_metadata_from_path catch their own errors
BatStat ==
    /\ pc = "v_stat"
    /\ \E ok \in BOOLEAN :
         IF ok
         THEN /\ pc' = "v_upload"
              /\ UNCHANGED <<idx, failed, faults>>
         ELSE BatFail
    /\ UNCHANGED <<pvars, parsed, world, bucket, db, runs, upload_audio, dry_run,
                   imported, skipped, errors, uploaded, s3_key, session, prior>>

\* lines 135-142: s3.upload_file
BatUpload ==
    /\ pc = "v_upload"
    /\ \E ok \in BOOLEAN :
         IF ok
         THEN /\ bucket' = bucket \cup {s3_key[1]}
              /\ pc' = "v_register"
              /\ UNCHANGED <<idx, failed, faults>>
         ELSE /\ BatFail
              /\ UNCHANGED bucket
    /\ UNCHANGED <<pvars, parsed, world, db, runs, upload_audio, dry_run,
                   imported, skipped, errors, uploaded, s3_key, session, prior>>

\* lines 144-163: the row is added and committed in a session of its own
BatRegister ==
    /\ pc = "v_register"
    /\ \E ok \in BOOLEAN :
         IF ok
         THEN /\ videos' = Append(videos, VideoRow(NewId(videos), video_dir[idx]))
              /\ uploaded' = UploadedTally(uploaded)
              /\ BatAdvance
              /\ UNCHANGED <<failed, faults>>
         ELSE /\ BatFail
              /\ UNCHANGED <<videos, uploaded>>
    /\ UNCHANGED <<pvars, parsed, world, bucket, audio_recordings, audio_segments, runs,
                   upload_audio, dry_run, imported, skipped, errors, s3_key, session, prior>>

\* line 169: the summary
BatSummary ==
    /\ script = "batch_upload"
    /\ pc = "v_summary"
    /\ pc' = "done"
    /\ UNCHANGED <<pvars, parsed, world, bucket, db, runs, idx, upload_audio, dry_run,
                   tallies, s3_key, session, faults, prior>>

(***************************************************************************)
(* Runs of one of the scripts over its directory, one after the other.    *)
(***************************************************************************)
InitIngest ==
    /\ docx = << >>
    /\ ppc = "none"
    /\ parsed = Unset
    /\ \/ /\ script = "import_otter_ai"
          /\ export_dir \in ExportDirs
          /\ video_dir = << >>
       \/ /\ script = "batch_upload"
          /\ export_dir = << >>
          /\ video_dir \in VideoDirs
    /\ NoScript

NextIngest ==
    \/ ImpBegin
    \/ ImpCheckMp3
    \/ ImpLookup
    \/ ImpParse
    \/ ImpUpload
    \/ ImpCreate
    \/ ImpCommit
    \/ ImpSummary
    \/ BatBegin
    \/ BatLookup
    \/ BatStat
    \/ BatUpload
    \/ BatRegister
    \/ BatSummary
    \/ Kill

SpecIngest == InitIngest /\ [][NextIngest]_vars

(***************************************************************************)
(* Properties of parse_otter_docx, checked under SpecParse.                *)
(***************************************************************************)
Returned == ppc = "returned"

GaveTranscript == Returned /\ parsed.outcome = "Transcript"

\* the segments of the transcript that was returned
Segs == parsed.result[1].segments

\* a paragraph with a character that is not whitespace
HasInk(line) == \E j \in 1..Len(line) : line[j] # " "

\* the paragraphs of the document that are not blank, in order
InkLines == SelectSeq(docx, HasInk)

NonEmptyLines == Len(InkLines)

BareTimestamps == {B_m_ss, B_mm_ss, B_h_mm_ss}

LabelledTimestamps == {B_al, B_bo}

\* C1: for a document of at least 3 non-empty lines the returned segments carry
\* the segment_index values 0, 1, ..., N-1 in list order
C1_SegmentIndexSequence ==
    (Returned /\ NonEmptyLines >= 3) =>
        /\ parsed.outcome = "Transcript"
        /\ \A i \in 1..Len(Segs) : Segs[i].segment_index = i - 1

\* two segments or more come out of a body that also holds a timestamp line
\* without text
C1_Witness ==
    /\ GaveTranscript
    /\ Len(Segs) >= 2
    /\ \E k \in (BodyStart + 1)..(Len(docx) - 1) :
          /\ docx[k] \in BareTimestamps \cup LabelledTimestamps
          /\ docx[k + 1] \in BareTimestamps \cup LabelledTimestamps

\* C2: every segment but the last ends where the next one starts
C2_Contiguous ==
    GaveTranscript =>
        \A i \in 1..(Len(Segs) - 1) : Segs[i].end_time = Segs[i + 1].start_time

\* two segments that start at different times
C2_Witness ==
    /\ GaveTranscript
    /\ Len(Segs) >= 2
    /\ Segs[1].start_time # Segs[2].start_time
    /\ Segs[1].end_time = Segs[2].start_time

\* C3: every segment has start_time >= 0 and end_time >= start_time
C3_EndNotBeforeStart ==
    GaveTranscript =>
        \A i \in 1..Len(Segs) :
            /\ Segs[i].start_time >= 0
            /\ Segs[i].end_time >= Segs[i].start_time

\* the label of the labelled timestamp line nearest before position k of the
\* body of document d, None if there is none
RECURSIVE LabelBefore(_, _)
LabelBefore(d, k) ==
    IF k <= BodyStart THEN None
    ELSE IF d[k] = B_al THEN Some(<<"A", "l">>)
    ELSE IF d[k] = B_bo THEN Some(<<"B", "o">>)
    ELSE LabelBefore(d, k - 1)

\* C5: a body line that is only a timestamp token (M:SS, MM:SS or H:MM:SS)
\* starts a segment that carries the label of the most recent labelled
\* timestamp line before it, or no speaker if there was none
C5_BareTimestampKeepsSpeaker ==
    (/\ Returned
     /\ Len(docx) >= BodyStart + 2
     /\ docx[Len(docx) - 1] \in BareTimestamps
     /\ docx[Len(docx)] = B_text) =>
        /\ parsed.outcome = "Transcript"
        /\ Len(Segs) > 0
        /\ Segs[Len(Segs)].speaker = LabelBefore(docx, Len(docx) - 2)

\* C8: None is returned, and no transcript, exactly when the document has
\* fewer than 3 non-empty lines
C8_NoneIffFewerThanThree ==
    Returned =>
        /\ (parsed.outcome = "None") <=> (NonEmptyLines < MinParagraphs)
        /\ (parsed.outcome = "None") => (parsed.result = None)
        /\ (parsed.outcome # "None") => (parsed.outcome = "Transcript" /\ parsed.result # None)

\* a document of three paragraphs or more of which two are not blank
C8_Witness ==
    /\ Returned
    /\ parsed.outcome = "None"
    /\ Len(docx) >= MinParagraphs
    /\ NonEmptyLines = MinParagraphs - 1

\* line 1 candidates that hold no date that can be converted
NoDateLines == {Title, L1_plain, L1_zero, L1_short, L1_baddate}

\* line 1 candidates that do not end in a duration
NoDurationLines == {Title, L1_plain, L1_baddate, L1_twodates}

HasLine(l) == \E k \in 1..Len(docx) : docx[k] = l

\* C9: a document of at least 3 non-empty lines always gives a transcript; a
\* missing or unparseable date, a missing duration, missing keyword and
\* speaker blocks, and the lack of speaker names leave the field None or empty
C9_DegradesToAbsence ==
    (Returned /\ NonEmptyLines >= 3) =>
        /\ parsed.outcome = "Transcript"
        /\ InkLines[2] \in NoDateLines => parsed.result[1].recording_date = None
        /\ InkLines[2] \in NoDurationLines => parsed.result[1].duration_seconds = None
        /\ ~HasLine(SUMMARY_KEYWORDS) => parsed.result[1].keywords = << >>
        /\ ~HasLine(SPEAKERS) => parsed.result[1].speakers = << >>
        /\ ~(HasLine(B_al) \/ HasLine(B_bo)) =>
               \A i \in 1..Len(Segs) : Segs[i].speaker = None

\* the duration that line 1 declares, in seconds
DeclaredSeconds(line1) ==
    IF line1 = L1_zero THEN Some(0)
    ELSE IF line1 = L1_short THEN Some(65)
    ELSE IF line1 = L1_otter THEN Some(1261)
    ELSE IF line1 = L1_iso THEN Some(4861)
    ELSE None

\* C10: the last segment ends at the declared duration whenever line 1 declares
\* one, 0 seconds included, and at its start_time + 30 when it declares none
C10_LastEndTime ==
    (GaveTranscript /\ Len(Segs) > 0) =>
        LET Ends(declared, last) ==
                /\ declared # None => last.end_time = declared[1]
                /\ declared = None => last.end_time = last.start_time + 30
        IN  Ends(DeclaredSeconds(InkLines[2]), Segs[Len(Segs)])

(***************************************************************************)
(* Properties of the runs, checked under SpecIngest.                       *)
(***************************************************************************)
Batch == script = "batch_upload"

\* the catalog table the running script writes to
Catalog == IF Batch THEN videos ELSE audio_recordings

\* the original filenames of the items of the directory, in loop order
ItemNames ==
    IF Batch THEN [k \in 1..Len(video_dir) |-> video_dir[k].name]
    ELSE [k \in 1..Len(export_dir) |-> Mp3Name(export_dir[k].stem)]

\* the run reached its summary after working through the items
Summarised == pc = "done" /\ ~(Batch /\ dry_run)

\* C4: a failure of a per-item step is caught, adds one to the error tally
\* (errors, or failed in batch_upload), and does not end the run
C4_FailuresTallied ==
    /\ pc # "aborted"
    /\ (IF Batch THEN failed ELSE errors) = faults

\* every item of the directory had its row when the current run began, one
\* row for each item
AllImportedBefore ==
    /\ Len(ItemNames) = prior
    /\ \A k \in 1..Len(ItemNames) :
          \E j \in 1..prior : Catalog[j].original_filename = ItemNames[k]

\* C6 as stated: a run over a directory whose items were all imported before
\* inserts no row and reports as skipped the number of items imported before
C6_RerunSkipsAll ==
    (AllImportedBefore /\ Summarised) =>
        /\ Len(Catalog) = prior
        /\ skipped = prior

\* C6: a run over a directory whose items were all imported before inserts no
\* row at any step, and its skipped tally at the summary is the number of
\* items imported before less the items whose lookup failed in this run
C6_RerunInsertsNothing ==
    AllImportedBefore =>
        /\ Len(Catalog) = prior
        /\ imported = 0
        /\ uploaded = 0
        /\ Summarised => /\ skipped = prior - faults
                         /\ ~Batch => skipped = prior
                         /\ Batch => failed = faults

\* the second run over two items that were imported before has skipped both
C6_Witness ==
    /\ AllImportedBefore
    /\ Summarised
    /\ runs >= 2
    /\ prior >= 2
    /\ skipped = prior

NoDuplicateNames(rows) ==
    \A i, j \in 1..Len(rows) :
        i # j => rows[i].original_filename # rows[j].original_filename

IsPrefix(s, t) == Len(s) <= Len(t) /\ SubSeq(t, 1, Len(s)) = s

\* C7: whatever runs were terminated and wherever, the catalog never holds two
\* rows of the same original filename, and no step removes or changes a row
\* that was committed
C7_RerunSafe ==
    /\ [](NoDuplicateNames(audio_recordings) /\ NoDuplicateNames(videos))
    /\ [][IsPrefix(audio_recordings, audio_recordings') /\ IsPrefix(videos, videos')]_vars

\* a re-run that found a committed row, added a row of its own and was then
\* terminated
C7_Witness ==
    /\ pc = "killed"
    /\ runs >= 2
    /\ prior >= 1
    /\ Len(Catalog) > prior

(***************************************************************************)
(* Line 1 and the header, checked under SpecParse.                         *)
(***************************************************************************)
\* the fields of the token that line 1 ends in, << >> when it ends in none
TrailingFields(line1) ==
    IF line1 = L1_zero THEN <<0, 0>>
    ELSE IF line1 = L1_short THEN <<1, 5>>
    ELSE IF line1 = L1_otter THEN <<21, 1>>
    ELSE IF line1 = L1_iso THEN <<1, 21, 1>>
    ELSE << >>

\* minutes:seconds and hours:minutes:seconds
FieldsToSeconds(f) ==
    IF Len(f) = 2 THEN Some(f[1] * 60 + f[2])
    ELSE IF Len(f) = 3 THEN Some(f[1] * 3600 + f[2] * 60 + f[3])
    ELSE None

\* C11: duration_seconds is A*60+B for a token A:B and A*3600+B*60+C for a
\* token A:B:C at the end of line 1, and None, with nothing raised, when
\* line 1 ends in no such token
C11_DurationFromTrailingToken ==
    (Returned /\ NonEmptyLines >= 3) =>
        /\ parsed.outcome = "Transcript"
        /\ parsed.result[1].duration_seconds = FieldsToSeconds(TrailingFields(InkLines[2]))

\* the Otter line, which holds the time of day before the duration
C11_Witness ==
    /\ GaveTranscript
    /\ InkLines[2] = L1_otter
    /\ parsed.result[1].duration_seconds = Some(1261)

\* the comma-separated, trimmed pieces of a line of the pools
Pieces(line) ==
    IF line = SpeakerValues THEN << <<"A", "l">>, <<"B", "o">> >>
    ELSE IF line = KeywordValues THEN << <<"a", "i">>, <<"n", "a", "s", "a">> >>
    ELSE << line >>

\* the line at index i (0-based) is the label and another line follows it
LabelAt(label, i) ==
    /\ i + 2 <= Len(InkLines)
    /\ InkLines[i + 1] = label

\* the indices the header scan covers
ScannedIndices == 2..(HeaderScanEnd - 1)

\* the list is made of the line after a label line at a scanned index, and
\* is empty when no scanned index holds the label
BlockRead(label, list) ==
    /\ (\E i \in ScannedIndices : LabelAt(label, i)) =>
           \E i \in ScannedIndices : LabelAt(label, i) /\ list = Pieces(InkLines[i + 2])
    /\ (\A i \in ScannedIndices : i + 1 <= Len(InkLines) => InkLines[i + 1] # label) =>
           list = << >>

\* C12: when a line at an index in 2..9 is exactly "SPEAKERS" ("SUMMARY
\* KEYWORDS") and another line follows it, speakers (keywords) is the list of
\* the trimmed comma-separated pieces of the line after it; a label that first
\* appears at index 10 or later leaves the list empty
C12_LabelledBlocks ==
    (Returned /\ NonEmptyLines >= 3) =>
        /\ parsed.outcome = "Transcript"
        /\ BlockRead(SPEAKERS, parsed.result[1].speakers)
        /\ BlockRead(SUMMARY_KEYWORDS, parsed.result[1].keywords)

\* line 1 candidates in which a pattern matches text that is no date
FailedConversionLines == {L1_baddate, L1_twodates}

Date(y, m, d) == Some([year |-> y, month |-> m, day |-> d])

\* C13 as stated: when a pattern matches line 1 and the conversion of the
\* matched text fails, recording_date is left unset, a later pattern that
\* matches and converts not being used
C13_StopsAfterFailedConversion ==
    (GaveTranscript /\ InkLines[2] \in FailedConversionLines) =>
        parsed.result[1].recording_date = None

\* C13: when a pattern matches line 1 and the conversion of the matched text
\* fails, nothing is raised and the later patterns are still tried:
\* recording_date is the date of a later pattern that matches and converts,
\* and is unset only when there is none
C13_LaterPatternsStillTried ==
    (Returned /\ NonEmptyLines >= 3 /\ InkLines[2] \in FailedConversionLines) =>
        /\ parsed.outcome = "Transcript"
        /\ InkLines[2] = L1_twodates => parsed.result[1].recording_date = Date(2023, 11, 27)
        /\ InkLines[2] = L1_baddate => parsed.result[1].recording_date = None

\* the long form matched "Foo, Bar 05, 2025", and the date is that of the
\* compact form
C13_Witness ==
    /\ GaveTranscript
    /\ InkLines[2] = L1_twodates
    /\ parsed.result[1].recording_date # None

\* the date of the first pattern, in the order long form, ISO, compact, that
\* matches line 1 and converts
ExpectedDate(line1) ==
    IF line1 \in {L1_otter, L1_iso, L1_both, L1_isolong} THEN Date(2025, 12, 5)
    ELSE IF line1 = L1_twodates THEN Date(2023, 11, 27)
    ELSE None

\* C14: recording_date is the date of the first pattern, in the order long
\* form, ISO, compact, that matches line 1 and converts, None when there is
\* none; the duration is extracted from the same line on its own, so the
\* Otter line gives 2025-12-05 and 1261
C14_FirstConvertingPattern ==
    (Returned /\ NonEmptyLines >= 3) =>
        /\ parsed.outcome = "Transcript"
        /\ parsed.result[1].recording_date = ExpectedDate(InkLines[2])
        /\ InkLines[2] = L1_otter =>
               /\ parsed.result[1].recording_date = Date(2025, 12, 5)
               /\ parsed.result[1].duration_seconds = Some(1261)

\* the compact date comes first in the line, the ISO date is the one taken
C14_Witness ==
    /\ GaveTranscript
    /\ InkLines[2] = L1_both
    /\ parsed.result[1].recording_date = Date(2025, 12, 5)

(***************************************************************************)
(* The segments, checked under SpecParse.                                  *)
(***************************************************************************)
\* the seconds that the whole token of a timestamp line of the pools stands
\* for: MM*60+SS, H*3600+MM*60+SS
TokenSeconds(line) ==
    IF line = B_m_ss THEN 1 * 60 + 5
    ELSE IF line = B_mm_ss THEN 12 * 60 + 34
    ELSE IF line = B_h_mm_ss THEN 1 * 3600 + 21 * 60 + 1
    ELSE IF line = B_al THEN 0 * 60 + 30
    ELSE 2 * 60 + 0

\* C15: a body line that ends in a timestamp token, with or without a speaker
\* name before it, opens a segment whose start_time is the conversion of the
\* whole token, so a bare "12:34" opens a segment at 754 and a bare "1:21:01"
\* at 4861
C15_StartIsWholeToken ==
    (/\ Returned
     /\ Len(docx) >= BodyStart + 2
     /\ docx[Len(docx) - 1] \in BareTimestamps \cup LabelledTimestamps
     /\ docx[Len(docx)] \in {B_text, B_word}) =>
        /\ parsed.outcome = "Transcript"
        /\ Len(Segs) > 0
        /\ Segs[Len(Segs)].start_time = TokenSeconds(docx[Len(docx) - 1])

\* a line of the pools that is text and starts with no header label
RetainedText(line) == line \in {B_text, B_word}

\* the texts of the segments of document d from position k on: a segment for
\* each timestamp line that retained text follows before the next timestamp
\* line or the end, its text the retained lines joined by single spaces;
\* open tells whether a timestamp line was met, cur is the text since it
RECURSIVE TextsFrom(_, _, _, _)
TextsFrom(d, k, open, cur) ==
    IF k > Len(d) THEN (IF open /\ cur # << >> THEN << cur >> ELSE << >>)
    ELSE IF d[k] \in BareTimestamps \cup LabelledTimestamps
         THEN (IF open /\ cur # << >> THEN << cur >> ELSE << >>)
              \o TextsFrom(d, k + 1, TRUE, << >>)
    ELSE IF open /\ RetainedText(d[k])
         THEN TextsFrom(d, k + 1, open, IF cur = << >> THEN d[k] ELSE cur \o <<" ">> \o d[k])
    ELSE TextsFrom(d, k + 1, open, cur)

\* C16: the segments are, in document order, one for each timestamp line of
\* the body that is followed by retained text before the next timestamp line
\* or the end of the document, and the text of each is the single-space join
\* of those lines; a timestamp line without retained text gives no segment and
\* text before the first timestamp line is in no segment
C16_SegmentsAndTexts ==
    (Returned /\ NonEmptyLines >= 3) =>
        /\ parsed.outcome = "Transcript"
        /\ [i \in 1..Len(Segs) |-> Segs[i].text] = TextsFrom(InkLines, BodyStart + 1, FALSE, << >>)

\* text before the first timestamp line, a stray label line inside a
\* segment, and a segment of two text lines
C16_Witness ==
    /\ GaveTranscript
    /\ Len(docx) > BodyStart + 1
    /\ RetainedText(docx[BodyStart + 1])
    /\ \E k \in (BodyStart + 2)..Len(docx) : docx[k] = SPEAKERS
    /\ Len(Segs) = 1
    /\ Segs[1].text = <<"a", " ", "b">>

(***************************************************************************)
(* The steps of import_otter_export, checked under SpecIngest.             *)
(***************************************************************************)
\* the docx file of a pair is one that the parser makes a transcript of
GivesTranscript(pair) == pair.docx.readable /\ pair.docx.paragraphs \in {Doc_two, Doc_none}

\* the pair the loop is at
CurrentPair == export_dir[idx]

\* a row is inserted only for a pair without a row of its original filename,
\* whose docx file gave a transcript and whose upload, if one was asked for,
\* put the key into the bucket
InsertOnlyAfterSuccess ==
    audio_recordings' # audio_recordings =>
        /\ Len(audio_recordings') = Len(audio_recordings) + 1
        /\ audio_recordings'[Len(audio_recordings')].original_filename = Mp3Name(CurrentPair.stem)
        /\ \A k \in 1..Len(audio_recordings) :
               audio_recordings[k].original_filename # Mp3Name(CurrentPair.stem)
        /\ GivesTranscript(CurrentPair)
        /\ upload_audio => s3_key # None /\ s3_key[1] \in bucket

\* a parse that fails or returns None adds one to errors, inserts nothing,
\* uploads nothing and lets the loop go on
ParseFailureTallied ==
    (pc = "parse" /\ pc' # "killed" /\ ~GivesTranscript(CurrentPair)) =>
        /\ errors' = errors + 1
        /\ pc' \in {"mp3", "summary"}
        /\ UNCHANGED <<audio_recordings, audio_segments, bucket, imported, skipped>>

\* an upload that fails adds one to errors, inserts nothing and lets the loop
\* go on; an upload that succeeds adds nothing to errors
UploadFailureTallied ==
    (pc = "upload" /\ pc' # "killed") =>
        /\ UNCHANGED <<audio_recordings, audio_segments, imported, skipped>>
        /\ \/ pc' = "create" /\ s3_key[1] \in bucket' /\ errors' = errors
           \/ pc' \in {"mp3", "summary"} /\ bucket' = bucket /\ errors' = errors + 1

\* C17: in import_otter_export a row is inserted for a pair only if no row of
\* its original filename existed, the parse gave a transcript and the upload
\* did not fail; a failed parse and a failed upload each add exactly one to
\* errors and insert nothing, and a failed parse uploads nothing
C17_ErrorsInsertNothing ==
    [][InsertOnlyAfterSuccess /\ ParseFailureTallied /\ UploadFailureTallied]_vars

\* a run over a pair whose upload failed and a pair whose docx file cannot be
\* opened: two errors, no row, nothing in the bucket
C17_Witness ==
    /\ script = "import_otter_ai"
    /\ pc = "done"
    /\ Len(export_dir) = 2
    /\ GivesTranscript(export_dir[1])
    /\ ~export_dir[2].docx.readable
    /\ errors = 2
    /\ audio_recordings = << >>
    /\ bucket = {}

\* C18 as stated: under every setting of the arguments the catalog never
\* holds a row whose storage key was never uploaded
C18_NoRecordWithoutObject ==
    \A k \in 1..Len(audio_recordings) : audio_recordings[k].s3_key \in bucket

\* the row that a step inserts
InsertedRow == audio_recordings'[Len(audio_recordings')]

\* C18: in a run with upload_audio set, a row is inserted only after the put
\* of the media file under the storage key of the row succeeded, and no object
\* is ever removed; in a run without upload_audio no put is made and the row
\* is inserted all the same
C18_UploadBeforeInsert ==
    /\ [][audio_recordings' # audio_recordings =>
             /\ upload_audio => InsertedRow.s3_key \in bucket
             /\ ~upload_audio => InsertedRow.s3_key = s3_key[1]]_vars
    /\ [][/\ bucket \subseteq bucket'
          /\ (bucket' # bucket) => (upload_audio \/ Batch)]_vars

\* a run with upload_audio set has inserted a row for the pair whose stem is
\* changed by the sanitising, and the object of the row is in the bucket
C18_Witness ==
    /\ script = "import_otter_ai"
    /\ upload_audio
    /\ Len(audio_recordings) > prior
    /\ audio_recordings[Len(audio_recordings)].original_filename = Mp3Name(StemOf(2))
    /\ audio_recordings[Len(audio_recordings)].s3_key \in bucket

\* the segment_index values of the committed segments of recording id, in
\* table order
RECURSIVE IndicesOf(_, _)
IndicesOf(rows, id) ==
    IF rows = << >> THEN << >>
    ELSE (IF Head(rows).audio_id = id THEN << Head(rows).segment_index >> ELSE << >>)
         \o IndicesOf(Tail(rows), id)

\* the number of segments that the docx file of the row's pair holds
ParsedSegments(row) ==
    LET pair == CHOOSE p \in {export_dir[k] : k \in 1..Len(export_dir)} :
                    Mp3Name(p.stem) = row.original_filename
    IN  IF pair.docx.paragraphs = Doc_two THEN 2 ELSE 0

\* C19: in every committed state of the catalog, also after a run failed or
\* was terminated between the adding of the parent and the commit, each
\* recording has all the segments of its document, with segment_index 0..N-1
\* in order, and each segment belongs to a recording that is present
C19_ParentWithAllSegments ==
    /\ \A k \in 1..Len(audio_recordings) :
          /\ IndicesOf(audio_segments, audio_recordings[k].id)
                 = [i \in 1..ParsedSegments(audio_recordings[k]) |-> i - 1]
          /\ \A j \in 1..Len(audio_recordings) :
                 j # k => audio_recordings[j].id # audio_recordings[k].id
    /\ \A j \in 1..Len(audio_segments) :
          \E k \in 1..Len(audio_recordings) :
              audio_recordings[k].id = audio_segments[j].audio_id

\* the run ended on a failure after the key of the second pair was made, at
\* the adding of the parent or at the commit; the first pair is in the catalog
\* with its two segments and the second pair has left nothing
C19_Witness ==
    /\ script = "import_otter_ai"
    /\ pc = "aborted"
    /\ idx = 2
    /\ s3_key # None
    /\ s3_key[1].name = Sanitize(StemOf(2))
    /\ Len(audio_recordings) = 1
    /\ Len(audio_segments) = 2

(***************************************************************************)
(* The tallies of both scripts, checked under SpecIngest.                  *)
(***************************************************************************)
\* the three counters of the running script
Counters == IF Batch THEN <<uploaded, skipped, failed>> ELSE <<imported, skipped, errors>>

CountersAfter ==
    IF Batch THEN <<uploaded', skipped', failed'>> ELSE <<imported', skipped', errors'>>

Sum3(t) == t[1] + t[2] + t[3]

\* within a run no counter decreases, and a step adds one to one counter at
\* most
CountersOnlyIncrease ==
    runs' = runs =>
        /\ \A i \in 1..3 : CountersAfter[i] >= Counters[i]
        /\ Sum3(CountersAfter) - Sum3(Counters) \in {0, 1}

\* C20: the tallies only increase, each item that was processed has added one
\* to exactly one of the three counters, and at the summary their sum is the
\* number of files that were found
C20_TalliesAddUp ==
    /\ [](Summarised => Sum3(Counters) = Len(ItemNames))
    /\ [](pc \notin Stopped => Sum3(Counters) = idx - 1)
    /\ [][CountersOnlyIncrease]_vars

\* a run over two pairs that imported one and counted an error for the other
C20_Witness ==
    /\ script = "import_otter_ai"
    /\ pc = "done"
    /\ Len(export_dir) = 2
    /\ imported = 1
    /\ errors = 1

====
